---- MODULE Spec2Model ----
(***************************************************************************)
(* A model of src/graphics/dotplot.py: the construction of a synteny       *)
(* dotplot from an anchor file and two ordered-gene indices (Bed objects). *)
(*                                                                         *)
(* Encodings                                                               *)
(*  - a float is a record [k, v]: k = "num" with v the value in tenths     *)
(*    (0.2 is v = 2), or k = "nan" for IEEE not-a-number, every ordered    *)
(*    comparison with which is false;                                      *)
(*  - a row of the anchor file is the sequence of its whitespace-separated *)
(*    fields; a gene identifier field is a pair <<prefix, number>>         *)
(*    (<<"g", 1>> is the text g1), any other field is a string;            *)
(*  - a sequence identifier is the sequence of its "_"-separated parts;    *)
(*  - a bed file is named by a descriptor of its contents: [pre, blocks],  *)
(*    the blocks <<seqid, count>> being laid out one after the other, the  *)
(*    gene at 1-based position p carrying the accession <<pre, p>>.        *)
(***************************************************************************)
EXTENDS Integers, Sequences, FiniteSets, TLC

(* ------------------------------ bounds -------------------------------- *)

\* longest anchor file (in rows) the model reads
MaxRows == 3

\* line 94 sets sample_number = 5000; the model scales the cap down so that
\* files longer than the cap fit in MaxRows
sample_number == 2

\* most blocks in a generated bed file
MaxBlocks == 2

\* line 120
ignore_size == 100

(* ------------------------------ floats -------------------------------- *)

Fl(n) == [k |-> "num", v |-> n]

NaN == [k |-> "nan", v |-> 0]

\* a local that has not been assigned yet
Unset == [k |-> "unset", v |-> 0]

IsNum(x) == x.k = "num"

FLt(a, b) == IsNum(a) /\ IsNum(b) /\ a.v < b.v

FGt(a, b) == IsNum(a) /\ IsNum(b) /\ a.v > b.v

FLe(a, b) == IsNum(a) /\ IsNum(b) /\ a.v <= b.v

FGe(a, b) == IsNum(a) /\ IsNum(b) /\ a.v >= b.v

FSub(a, b) == IF IsNum(a) /\ IsNum(b) THEN Fl(a.v - b.v) ELSE NaN

FNeg(a) == IF IsNum(a) THEN Fl(0 - a.v) ELSE NaN

\* the texts float() accepts, with the value of each (in tenths)
FloatText ==
    [t \in {"0.2", "0.5", "1.5", "-1", "nan"} |->
        CASE t = "0.2" -> Fl(2)
          [] t = "0.5" -> Fl(5)
          [] t = "1.5" -> Fl(15)
          [] t = "-1"  -> Fl(0 - 10)
          [] t = "nan" -> NaN]

\* float(text): the value, or ValueError (ok = FALSE)
float(text) ==
    IF text \in DOMAIN FloatText
    THEN [ok |-> TRUE, val |-> FloatText[text]]
    ELSE [ok |-> FALSE, val |-> Unset]

(* --------------------------- sequence helpers ------------------------- *)

Range(s) == {s[i] : i \in 1..Len(s)}

RECURSIVE SumSeq(_)
SumSeq(s) == IF s = <<>> THEN 0 ELSE Head(s) + SumSeq(Tail(s))

Reverse(s) == [i \in 1..Len(s) |-> s[Len(s) + 1 - i]]

SeqsUpTo(S, n) == UNION {[1..m -> S] : m \in 0..n}

MinOf(S) == CHOOSE x \in S : \A y \in S : x <= y

MaxOf(S) == CHOOSE x \in S : \A y \in S : x >= y

Abs(n) == IF n < 0 THEN 0 - n ELSE n

(* ------------------- the ordered-gene index (Bed) --------------------- *)

Counts(b) == [i \in 1..Len(b.blocks) |-> b.blocks[i][2]]

\* len(bed)
BedLen(b) == SumSeq(Counts(b))

\* the block that holds the gene at 1-based position p
BlockOf(b, p) ==
    CHOOSE i \in 1..Len(b.blocks) :
        /\ SumSeq(SubSeq(Counts(b), 1, i - 1)) < p
        /\ p <= SumSeq(SubSeq(Counts(b), 1, i))

\* the lines of the bed file, in file order
BedLines(b) ==
    [p \in 1..BedLen(b) |-> [seqid |-> b.blocks[BlockOf(b, p)][1], accn |-> <<b.pre, p>>]]

\* bed.order: accession -> (rank, line), ranks counted from 0
order(b) ==
    LET lines == BedLines(b)
    IN  [a \in {lines[p].accn : p \in 1..Len(lines)} |->
            LET p == CHOOSE q \in 1..Len(lines) : lines[q].accn = a
            IN  <<p - 1, lines[p]>>]

\* bed.simple_bed: (seqid, rank) in rank order
simple_bed(b) ==
    LET lines == BedLines(b)
    IN  [p \in 1..Len(lines) |-> <<lines[p].seqid, p - 1>>]

(* ------------------------------ get_breaks ---------------------------- *)

\* itertools.groupby(rows, key = first field): a new group starts at the
\* first entry and at every entry whose key differs from the key of the entry
\* before it, and runs up to the next start
group_starts(rows) ==
    {i \in 1..Len(rows) : i = 1 \/ rows[i][1] # rows[i - 1][1]}

groupby(rows) ==
    LET starts == group_starts(rows)
        nth(k) == CHOOSE i \in starts : Cardinality({j \in starts : j < i}) = k - 1
        last(k) == IF k = Cardinality(starts) THEN Len(rows) ELSE nth(k + 1) - 1
    IN  [k \in 1..Cardinality(starts) |-> <<rows[nth(k)][1], SubSeq(rows, nth(k), last(k))>>]

\* get_breaks, had it yielded the first rank of the group twice
get_breaks_first_rank(b) ==
    LET gs == groupby(simple_bed(b))
    IN  [i \in 1..Len(gs) |-> <<gs[i][1], gs[i][2][1][2], gs[i][2][1][2]>>]

\* get_breaks(bed): (seqid, first rank, last rank) of every group
get_breaks(b) ==
    LET gs == groupby(simple_bed(b))
    IN  [i \in 1..Len(gs) |->
            LET ranks == gs[i][2]
            IN  <<gs[i][1], ranks[1][2], ranks[Len(ranks)][2]>>]

(* --------------------------- parsing a row ---------------------------- *)

\* lines 73-74: try: value = float(value) / except: value = vmin
parse_value(text, lo) ==
    LET r == float(text) IN IF r.ok THEN r.val ELSE lo

\* lines 76-77: the two clipping comparisons, in the order the code makes them
clip(x, lo, hi) ==
    LET y == IF FLt(x, lo) THEN lo ELSE x
    IN  IF FGt(y, hi) THEN hi ELSE y

\* line 71: a row with fewer than three fields is skipped
too_short(atoms) == Len(atoms) < 3

\* lines 79-84: the row is dropped unless both identifiers are keys of the
\* order lookups
known(query, subject, qorder, sorder) ==
    /\ query \in DOMAIN qorder
    /\ subject \in DOMAIN sorder

\* point, had the score not been inverted
point_not_inverted(query, subject, x, qorder, sorder, hi) ==
    <<qorder[query][1], sorder[subject][1], x>>

\* lines 86-88: the point appended for a row that is kept
point(query, subject, x, qorder, sorder, hi) ==
    <<qorder[query][1], sorder[subject][1], FSub(hi, x)>>

(* ----------------------------- downsampling --------------------------- *)

\* random.sample(population, k): the elements at k distinct positions, in
\* the order they were drawn; every such selection is possible
sample(population, k) ==
    LET n == Len(population)
        draws == {f \in [1..k -> 1..n] : \A i, j \in 1..k : i # j => f[i] # f[j]}
    IN  {[i \in 1..k |-> population[f[i]]] : f \in draws}

\* downsample, had the comparison with the cap been >=
downsample_at_cap(points) ==
    IF Len(points) >= sample_number THEN sample(points, sample_number) ELSE {points}

\* lines 95-96: the lists the downsampling step may leave in data
downsample(points) ==
    IF Len(points) > sample_number THEN sample(points, sample_number) ELSE {points}

(* ------------------------------- sorting ------------------------------ *)

\* line 100: key = lambda x: -x[2]
sort_key(p) == FNeg(p[3])

\* the comparison list.sort makes: key(x) < key(y)
islt(x, y) == FLt(sort_key(x), sort_key(y))

\* list.sort on a list shorter than 64: the leading run is found (count_run),
\* reversed if it is strictly descending, and the remaining elements are
\* inserted one by one by binary search (binarysort)
RECURSIVE run_end(_, _, _)
run_end(a, i, descending) ==
    IF i < Len(a) /\ (islt(a[i + 1], a[i]) <=> descending)
    THEN run_end(a, i + 1, descending)
    ELSE i

\* the 0-based position at which pivot is inserted into a[l..r-1]
RECURSIVE bisect(_, _, _, _)
bisect(a, pivot, l, r) ==
    IF l < r
    THEN LET p == l + ((r - l) \div 2)
         IN  IF islt(pivot, a[p + 1]) THEN bisect(a, pivot, l, p) ELSE bisect(a, pivot, p + 1, r)
    ELSE l

RECURSIVE binarysort(_, _)
binarysort(a, start) ==
    IF start >= Len(a) THEN a
    ELSE LET pivot == a[start + 1]
             l == bisect(a, pivot, 0, start)
             b == [i \in 1..Len(a) |->
                      IF i <= l THEN a[i]
                      ELSE IF i = l + 1 THEN pivot
                      ELSE IF i <= start + 1 THEN a[i - 1]
                      ELSE a[i]]
         IN  binarysort(b, start + 1)

list_sort(a) ==
    IF Len(a) < 2 THEN a
    ELSE LET descending == islt(a[2], a[1])
             n == run_end(a, 2, descending)
             run == SubSeq(a, 1, n)
             b == (IF descending THEN Reverse(run) ELSE run) \o SubSeq(a, n + 1, Len(a))
         IN  binarysort(b, n)

(* ------------------------------ overlays ------------------------------ *)

\* jcvi.algorithms.synteny.batch_scan: the clusters found in the points it
\* is given, each a non-empty collection of (x, y) pairs; here either none,
\* or one cluster of all the points
batch_scan(points) ==
    {<<>>} \cup (IF points = <<>> THEN {}
                 ELSE {<<[i \in 1..Len(points) |-> <<points[i][1], points[i][2]>>]>>})

\* draw_box: one rectangle (xmin, ymin, width, height) per cluster
draw_box(clusters) ==
    [c \in 1..Len(clusters) |->
        LET xrect == {clusters[c][i][1] : i \in 1..Len(clusters[c])}
            yrect == {clusters[c][i][2] : i \in 1..Len(clusters[c])}
        IN  <<MinOf(xrect), MinOf(yrect),
              MaxOf(xrect) - MinOf(xrect), MaxOf(yrect) - MinOf(yrect)>>]

(* --------------------------- chromosome labels ------------------------ *)

\* the texts int() accepts
IntText == [t \in {"1", "2", "02"} |-> IF t = "1" THEN 1 ELSE 2]

\* lines 124-129: the last "_"-separated part, as "c%d" when it is a number
chr_label(seqid) ==
    LET last == seqid[Len(seqid)]
    IN  IF last \in DOMAIN IntText THEN <<"c", IntText[last]>> ELSE <<last>>

\* ignore_tag, had the comparison with ignore_size been <=
ignore_tag_inclusive(beg, end) == Abs(end - beg) <= ignore_size

\* lines 123 and 135: the tag that suppresses the name of a small chromosome
ignore_tag(beg, end) == Abs(end - beg) < ignore_size

\* lines 122-131 and 134-143: one (label, middle, ignore) per break
chr_labels(br) ==
    [i \in 1..Len(br) |->
        <<chr_label(br[i][1]), (br[i][2] + br[i][3]) \div 2, ignore_tag(br[i][2], br[i][3])>>]

\* lines 132 and 144: one boundary line per break, at its first rank
chr_lines(br) == [i \in 1..Len(br) |-> br[i][2]]

\* lines 147-158: the labels written on the canvas
chr_texts(labels) ==
    SelectSeq([i \in 1..Len(labels) |-> <<labels[i][1], labels[i][2], labels[i][3]>>],
              LAMBDA l : ~l[3])

\* lines 114-116
xlim(qb) == <<0, BedLen(qb)>>

ylim(sb) == <<BedLen(sb), 0>>

\* lines 214-217: the bed paths are compared
self_comparison(qpath, spath) == qpath = spath

\* diagonal_marker, had the flag not been tested
diagonal_marker_always(flag, qb, sb) ==
    <<<<<<0, BedLen(sb)>>, <<BedLen(qb), 0>>>>>>

\* lines 161-162: ax.plot(xlim, ylim) joins (xlim[0], ylim[0]) and (xlim[1], ylim[1])
diagonal_marker(flag, qb, sb) ==
    IF flag
    THEN <<<<<<xlim(qb)[1], ylim(sb)[1]>>, <<xlim(qb)[2], ylim(sb)[2]>>>>>>
    ELSE <<>>

\* lines 107-109: the points handed to batch_scan
scan_input(points) == points

(* ------------------------------- inputs ------------------------------- *)

G(n) == <<"g", n>>

H(n) == <<"h", n>>

Unknown == <<"zzz", 0>>

Chr1 == <<"chr", "1">>

Chr2 == <<"chr", "02">>

ScfX == <<"scaffold", "x">>

QSmall == [pre |-> "g", blocks |-> <<<<Chr1, 2>>, <<Chr2, 1>>>>]

SSmall == [pre |-> "h", blocks |-> <<<<Chr1, 1>>, <<ScfX, 1>>>>]

SBig == [pre |-> "g", blocks |-> <<<<ScfX, ignore_size + 1>>>>]

\* rows of every kind the parser tells apart
Lines ==
    { <<>>,
      <<G(1), H(1)>>,
      <<G(1), H(1), "0.2">>,
      <<G(2), H(2), "1.5">>,
      <<G(3), Unknown, "0.5">>,
      <<Unknown, H(1), "0.5">>,
      <<G(1), H(2), "abc">>,
      <<G(2), H(1), "nan">>,
      <<G(3), H(1), "-1", "extra">> }

FewLines ==
    { <<G(1), H(1), "0.2">>, <<G(2), H(2), "1.5">>, <<G(3), Unknown, "0.5">> }

\* bed files of up to MaxBlocks blocks, around the size that hides a label
Blocks == {Chr1, ScfX} \X {1, ignore_size, ignore_size + 1}

GenBeds == {[pre |-> "g", blocks |-> bs] : bs \in SeqsUpTo(Blocks, MaxBlocks)}

Options(rs, lo, hi, q, sb, syn, cm) ==
    [rows |-> rs, vmin |-> lo, vmax |-> hi, qbed |-> q, sbed |-> sb,
     synteny |-> syn, cmap_text |-> cm]

\* vmin and vmax (in tenths): in order, reversed, equal
ValueRanges == {<<0, 10>>, <<10, 0>>, <<0, 0>>}

\* anchor files of every kind, under every ordering of vmin and vmax
ParseRuns ==
    {Options(rs, Fl(r[1]), Fl(r[2]), QSmall, SSmall, FALSE, "") :
        rs \in SeqsUpTo(Lines, MaxRows), r \in ValueRanges}

\* the options of the command line
OverlayRuns ==
    {Options(rs, Fl(0), Fl(10), QSmall, sb, syn, cm) :
        rs \in SeqsUpTo(FewLines, MaxRows), sb \in {SSmall},
        syn \in BOOLEAN, cm \in {"", "Ks"}}

\* bed files of every layout, compared with themselves and with another
LayoutRuns ==
    UNION {{Options(rs, Fl(0), Fl(10), q, sb, FALSE, cm) :
               rs \in {<<>>, <<<<G(1), G(1), "0.5">>>>},
               sb \in {q, SBig}, cm \in {"", "Ks"}} : q \in GenBeds}

Runs == ParseRuns \cup OverlayRuns \cup LayoutRuns

(* ------------------------------- state -------------------------------- *)

VARIABLES
    pc,            \* the statement dotplot.py is at
    opts,          \* the command line and the files it names
    is_self,       \* line 214
    row,           \* rows of the anchor file read so far
    value,         \* the local value of the reading loop
    data,          \* the list data
    scatter_args,  \* the calls of ax.scatter, each with its points
    scan_args,     \* the calls of batch_scan, each with its points
    boxes,         \* the rectangles draw_box added
    xbreaks, ybreaks,  \* what get_breaks yielded for each axis
    xchr_labels, ychr_labels,
    xlines, ylines,  \* the boundary lines plotted
    xtexts, ytexts,  \* the chromosome names written
    diagonal,      \* the diagonal lines plotted
    error          \* the exception that ended the run, if any

vars == <<pc, opts, is_self, row, value, data, scatter_args, scan_args, boxes,
          xbreaks, ybreaks, xchr_labels, ychr_labels, xlines, ylines, xtexts, ytexts, diagonal, error>>

canvas == <<scatter_args, scan_args, boxes, xbreaks, ybreaks, xchr_labels, ychr_labels, xlines,
            ylines, xtexts, ytexts, diagonal>>

Init ==
    /\ opts \in Runs
    /\ pc = "main"
    /\ is_self = FALSE
    /\ row = 0
    /\ value = Unset
    /\ data = <<>>
    /\ scatter_args = <<>>
    /\ scan_args = <<>>
    /\ boxes = <<>>
    /\ xbreaks = <<>>
    /\ ybreaks = <<>>
    /\ xchr_labels = <<>>
    /\ ychr_labels = <<>>
    /\ xlines = <<>>
    /\ ylines = <<>>
    /\ xtexts = <<>>
    /\ ytexts = <<>>
    /\ diagonal = <<>>
    /\ error = "none"

\* where the reading loop goes after row n
after_row(n) == IF n < Len(opts.rows) THEN "read" ELSE "sample"

\* lines 208-229: __main__ up to the call of dotplot
Main ==
    /\ pc = "main"
    /\ is_self' = self_comparison(opts.qbed, opts.sbed)
    /\ pc' = after_row(0)
    /\ UNCHANGED <<opts, row, value, data, canvas, error>>

\* lines 69-88: one pass of the reading loop
ReadRow ==
    /\ pc = "read"
    /\ row < Len(opts.rows)
    /\ LET atoms == opts.rows[row + 1]
           qorder == order(opts.qbed)
           sorder == order(opts.sbed)
       IN  IF too_short(atoms)
           THEN UNCHANGED <<value, data>>
           ELSE LET x == clip(parse_value(atoms[3], opts.vmin), opts.vmin, opts.vmax)
                IN  /\ value' = x
                    /\ IF known(atoms[1], atoms[2], qorder, sorder)
                       THEN data' = Append(data, point(atoms[1], atoms[2], x, qorder, sorder, opts.vmax))
                       ELSE UNCHANGED data
    /\ row' = row + 1
    /\ pc' = after_row(row + 1)
    /\ UNCHANGED <<opts, is_self, canvas, error>>

\* lines 94-96
Downsample ==
    /\ pc = "sample"
    /\ data' \in downsample(data)
    /\ pc' = "sort"
    /\ UNCHANGED <<opts, is_self, row, value, canvas, error>>

\* line 100
Sort ==
    /\ pc = "sort"
    /\ data' = list_sort(data)
    /\ pc' = "scatter"
    /\ UNCHANGED <<opts, is_self, row, value, canvas, error>>

\* lines 103-105: x, y, c = zip(*data) needs three columns, and zip(*[]) has none
Scatter ==
    /\ pc = "scatter"
    /\ IF data = <<>>
       THEN /\ pc' = "failed"
            /\ error' = "ValueError"
            /\ UNCHANGED scatter_args
       ELSE /\ pc' = "synteny"
            /\ scatter_args' = Append(scatter_args, data)
            /\ UNCHANGED error
    /\ UNCHANGED <<opts, is_self, row, value, data, scan_args, boxes, xbreaks, ybreaks,
                   xchr_labels, ychr_labels, xlines, ylines, xtexts, ytexts, diagonal>>

\* lines 107-109
Synteny ==
    /\ pc = "synteny"
    /\ IF opts.synteny
       THEN /\ scan_args' = Append(scan_args, scan_input(data))
            /\ \E clusters \in batch_scan(scan_input(data)) : boxes' = draw_box(clusters)
       ELSE UNCHANGED <<scan_args, boxes>>
    /\ pc' = "cmap"
    /\ UNCHANGED <<opts, is_self, row, value, data, scatter_args, xbreaks, ybreaks,
                   xchr_labels, ychr_labels, xlines, ylines, xtexts, ytexts, diagonal, error>>

\* lines 111-112: draw_cmap (line 46) uses np, a name the module never binds
Cmap ==
    /\ pc = "cmap"
    /\ IF opts.cmap_text # ""
       THEN pc' = "failed" /\ error' = "NameError"
       ELSE pc' = "breaks" /\ UNCHANGED error
    /\ UNCHANGED <<opts, is_self, row, value, data, canvas>>

\* lines 114-144
Breaks ==
    /\ pc = "breaks"
    /\ xbreaks' = get_breaks(opts.qbed)
    /\ ybreaks' = get_breaks(opts.sbed)
    /\ xchr_labels' = chr_labels(xbreaks')
    /\ xlines' = chr_lines(xbreaks')
    /\ ychr_labels' = chr_labels(ybreaks')
    /\ ylines' = chr_lines(ybreaks')
    /\ pc' = "labels"
    /\ UNCHANGED <<opts, is_self, row, value, data, scatter_args, scan_args, boxes,
                   xtexts, ytexts, diagonal, error>>

\* lines 146-158
Labels ==
    /\ pc = "labels"
    /\ xtexts' = chr_texts(xchr_labels)
    /\ ytexts' = chr_texts(ychr_labels)
    /\ pc' = "diagonal"
    /\ UNCHANGED <<opts, is_self, row, value, data, scatter_args, scan_args, boxes, xbreaks, ybreaks,
                   xchr_labels, ychr_labels, xlines, ylines, diagonal, error>>

\* lines 160-165
Diagonal ==
    /\ pc = "diagonal"
    /\ diagonal' = diagonal_marker(is_self, opts.qbed, opts.sbed)
    /\ pc' = "save"
    /\ UNCHANGED <<opts, is_self, row, value, data, scatter_args, scan_args, boxes, xbreaks, ybreaks,
                   xchr_labels, ychr_labels, xlines, ylines, xtexts, ytexts, error>>

\* lines 167-187
Save ==
    /\ pc = "save"
    /\ pc' = "done"
    /\ UNCHANGED <<opts, is_self, row, value, data, canvas, error>>

Next ==
    \/ Main
    \/ ReadRow
    \/ Downsample
    \/ Sort
    \/ Scatter
    \/ Synteny
    \/ Cmap
    \/ Breaks
    \/ Labels
    \/ Diagonal
    \/ Save

Spec == Init /\ [][Next]_vars

\* the runs whose vmin does not exceed vmax
InitOrdered == Init /\ FLe(opts.vmin, opts.vmax)

SpecOrdered == InitOrdered /\ [][Next]_vars

(* ------------------------------ properties ---------------------------- *)

Min(a, b) == IF a < b THEN a ELSE b

Max(a, b) == IF a > b THEN a ELSE b

Count(seq, x) == Cardinality({i \in 1..Len(seq) : seq[i] = x})

Accns(b) == {BedLines(b)[p].accn : p \in 1..BedLen(b)}

Rank(b, a) == (CHOOSE p \in 1..BedLen(b) : BedLines(b)[p].accn = a) - 1

\* the value a row stands for: its third field as a number, valueMin when the
\* field is missing or is not a number
RawValue(r) ==
    IF Len(r) >= 3 /\ r[3] \in DOMAIN FloatText THEN FloatText[r[3]] ELSE opts.vmin

\* clip(value, valueMin, valueMax) of a number
Clamp(x) == IF IsNum(x) THEN Fl(Min(Max(x.v, opts.vmin.v), opts.vmax.v)) ELSE x

\* the points of the rows rs that have at least `fields` fields and two known
\* identifiers, in the order of the rows
PointsOf(rs, fields) ==
    LET kept == SelectSeq(rs, LAMBDA r : /\ Len(r) >= fields
                                         /\ r[1] \in Accns(opts.qbed)
                                         /\ r[2] \in Accns(opts.sbed))
    IN  [i \in 1..Len(kept) |->
            <<Rank(opts.qbed, kept[i][1]), Rank(opts.sbed, kept[i][2]),
              FSub(opts.vmax, Clamp(RawValue(kept[i])))>>]

RowsRead == SubSeq(opts.rows, 1, row)

C2_ClippedInRange ==
    /\ value # Unset => FLe(opts.vmin, value) /\ FLe(value, opts.vmax)
    /\ \A i \in 1..Len(data) :
          FLe(Fl(0), data[i][3]) /\ FLe(data[i][3], FSub(opts.vmax, opts.vmin))

\* C3: when no anchor survives mapping, dotplot does not fail.
C3_EmptyPlotCompletes ==
    PointsOf(opts.rows, 3) = <<>> => pc # "failed"

\* C4: the downsampling step leaves min(n, cap) points: the list itself when
\* n <= cap, and otherwise the points at cap distinct positions of the list.
C4_DownsampleSize ==
    [][pc = "sample" =>
        LET n == Len(data)
        IN  /\ Len(data') = Min(n, sample_number)
            /\ Len(data') <= n
            /\ n <= sample_number => data' = data
            /\ n > sample_number =>
                  \E f \in [1..sample_number -> 1..n] :
                      /\ \A i, j \in 1..sample_number : i # j => f[i] # f[j]
                      /\ \A i \in 1..sample_number : data'[i] = data[f[i]]]_vars

\* more points were mapped than the cap, and the step has cut them to the cap
C4_Witness ==
    /\ pc = "sort"
    /\ Len(PointsOf(opts.rows, 3)) > sample_number
    /\ Len(data) = sample_number

\* C5: the points handed to scatter are a permutation of the downsampled
\* points and are in non-increasing order of score.
C5_DescendingScores ==
    \A k \in 1..Len(scatter_args) :
        LET pts == scatter_args[k]
            mapped == PointsOf(opts.rows, 3)
        IN  /\ Len(pts) = Min(Len(mapped), sample_number)
            /\ \A i \in 1..Len(pts) : Count(pts, pts[i]) <= Count(mapped, pts[i])
            /\ \A i \in 1..(Len(pts) - 1) : FGe(pts[i][3], pts[i + 1][3])

\* C6: with the synteny option the detector is given every mapped point, as
\* the set was before downsampling; without it the detector is not called and
\* no box is drawn.
C6_DetectorGetsAllPoints ==
    /\ opts.synteny =>
          /\ \A k \in 1..Len(scan_args) : Range(scan_args[k]) = Range(PointsOf(opts.rows, 3))
          /\ pc \in {"cmap", "breaks", "labels", "diagonal", "save", "done"} => Len(scan_args) = 1
    /\ ~opts.synteny => scan_args = <<>> /\ boxes = <<>>

\* the breaks br are the maximal runs of equal seqid of the index sb
MaximalRuns(sb, br) ==
    /\ (br = <<>>) <=> (sb = <<>>)
    /\ \A i \in 1..Len(br) :
          /\ br[i][2] <= br[i][3]
          /\ \A r \in br[i][2]..br[i][3] : r + 1 \in 1..Len(sb) /\ sb[r + 1] = <<br[i][1], r>>
          /\ i = 1 => br[i][2] = sb[1][2]
          /\ i = Len(br) => br[i][3] = sb[Len(sb)][2]
          /\ i < Len(br) => br[i + 1][2] = br[i][3] + 1 /\ br[i + 1][1] # br[i][1]

AfterBreaks == pc \in {"labels", "diagonal", "save", "done"}

\* C7: get_breaks yields one (seqid, first rank, last rank) per maximal run of
\* entries with the same seqid, in index order; the runs are disjoint, cover
\* the index, and adjacent runs differ in seqid.
C7_BreaksAreMaximalRuns ==
    AfterBreaks =>
        /\ MaximalRuns(simple_bed(opts.qbed), xbreaks)
        /\ MaximalRuns(simple_bed(opts.sbed), ybreaks)

\* the index [(chr1,0),(chr1,1),(chr2,2)] has given (chr1,0,1) and (chr2,2,2)
C7_Witness ==
    /\ AfterBreaks
    /\ simple_bed(opts.qbed) = <<<<Chr1, 0>>, <<Chr1, 1>>, <<Chr2, 2>>>>
    /\ xbreaks = <<<<Chr1, 0, 1>>, <<Chr2, 2, 2>>>>

\* C8: the flag is true exactly when the two bed paths are the same, and the
\* finished layout has the diagonal exactly when the flag is true, running
\* from (0, axisLength) to (axisLength, 0).
C8_DiagonalIffSelf ==
    /\ pc # "main" => (is_self <=> opts.qbed = opts.sbed)
    /\ diagonal # <<>> => is_self
    /\ pc \in {"save", "done"} /\ is_self =>
          LET axisLength == BedLen(opts.qbed)
          IN  /\ axisLength = BedLen(opts.sbed)
              /\ diagonal = <<<<<<0, axisLength>>, <<axisLength, 0>>>>>>

C8_Witness ==
    /\ pc = "done"
    /\ is_self
    /\ BedLen(opts.qbed) > 0
    /\ diagonal # <<>>

\* C9: the value column is optional: a row with two known identifiers whose
\* value is missing or is not a number yields the point of value valueMin.
C9_ValueIsOptional ==
    pc = "sample" => data = PointsOf(opts.rows, 2)

\* the names written for the breaks br are those of the runs of extent >= 100
LabelsOfLongRuns(br, labels, lines, texts) ==
    /\ Len(labels) = Len(br)
    /\ Len(lines) = Len(br)
    /\ \A i \in 1..Len(br) :
          /\ lines[i] = br[i][2]
          /\ labels[i][3] <=> Abs(br[i][3] - br[i][2]) < 100
          /\ (\E t \in Range(texts) : t[2] = (br[i][2] + br[i][3]) \div 2)
                <=> ~(Abs(br[i][3] - br[i][2]) < 100)
    /\ Len(texts) = Cardinality({i \in 1..Len(br) : Abs(br[i][3] - br[i][2]) >= 100})

\* C10: the name of a break is suppressed exactly when |end - start| < 100,
\* by the break's own extent, and every break gets its boundary line.
C10_LabelsOfLongRuns ==
    pc \in {"diagonal", "save", "done"} =>
        /\ LabelsOfLongRuns(xbreaks, xchr_labels, xlines, xtexts)
        /\ LabelsOfLongRuns(ybreaks, ychr_labels, ylines, ytexts)

\* an axis with a run of extent 100 (named) before a run of extent 99 (not)
C10_Witness ==
    /\ pc = "done"
    /\ \E i \in 1..(Len(xbreaks) - 1) :
          /\ xbreaks[i][3] - xbreaks[i][2] = 100
          /\ xbreaks[i + 1][3] - xbreaks[i + 1][2] = 99
    /\ Len(xtexts) = 1

====
